---- MODULE Spec2Model ----
(***************************************************************************)
(* UnblockedHub: the dual-backend record store (remote table / browser     *)
(* localStorage), its change subscriptions, and the App component's        *)
(* start-up, handlers and change reconciliation.                           *)
(***************************************************************************)
EXTENDS Integers, Sequences, FiniteSets

VARIABLES
    now,             \* the wall clock, in milliseconds (Date.now(), new Date(), now())
    table,           \* the rows of the remote `games` table, newest first
    nextUuid,        \* how many ids gen_random_uuid() has handed out
    unblockedGames,  \* localStorage item 'unblockedGames'
    gameUpdate,      \* localStorage item 'gameUpdate' (the cross-tab sentinel)
    pend,            \* per API client: its suspended localStorageService call
    subs,            \* per subscriber: the store it listens to, or "none"
    relists,         \* change events / re-lists in flight, one entry per event
    born,            \* history: the <<id, created_at>> pairs assigned by creates
    configured,      \* the Supabase environment variables are present
    \* The App component (tab 0).
    pc,              \* where initializeSupabase stands
    initRes,         \* what the getGames it awaits will resolve to
    gameService,     \* useState(null): "null" or "remote"
    isSupabaseConnected,
    games,           \* the displayed collection
    showNotification,
    isOnline,
    isLoading,
    lastGameCount,
    effectDeps,      \* [gameService, isSupabaseConnected] at the subscription effect's last run
    op,              \* the handler that is awaiting its store call
    alerted          \* the handler that returned last called alert()

appVars == <<pc, initRes, gameService, isSupabaseConnected, games, showNotification,
             isOnline, isLoading, lastGameCount, effectDeps, op, alerted>>

storeVars == <<now, table, nextUuid, unblockedGames, gameUpdate, pend, subs,
               relists, born, configured>>

-----------------------------------------------------------------------------
(* Bounds of the model.                                                    *)

MaxTicks == 1       \* clock ticks after the initial instant
MaxGames == 2       \* records a store holds at most
MaxUuid == 3        \* remote inserts in one behaviour
MaxRelists == 2     \* change events / re-lists in flight at once
MaxInFlight == 1    \* the same, in a session of the App with its handlers in use

-----------------------------------------------------------------------------
(* Values.                                                                 *)

Clients == {1, 2}          \* callers of the store API (tabs / remote clients)

\* The field sets a caller passes to addGame (Omit<Game,'id'|'created_at'|'updated_at'>).
GameInputs ==
    { [title |-> "Maze", description |-> "", category |-> "Puzzle",
       color |-> "c1", url |-> "https://x/maze"],
      [title |-> "X", description |-> "", category |-> "Arcade",
       color |-> "c1", url |-> "https://x/maze"] }

\* What the App's form (newGame) holds when Save is pressed.
FormInputs == { g \in GameInputs : g.title = "Maze" }

\* The partial field sets a caller passes to updateGame.
GameUpdates == { [title |-> "X"] }

InputKeys == {"title", "description", "category", "color", "url"}

RECURSIVE ToString(_)
\* Number.prototype.toString(): the decimal digits, most significant first.
ToString(n) == IF n < 10 THEN <<n>> ELSE Append(ToString(n \div 10), n % 10)

\* Date.prototype.toISOString(): a fixed-width rendering, zero padded, so that
\* the order of the strings is the order of the instants.
ToISOString(n) ==
    LET d == ToString(n) IN IF Len(d) < 2 THEN <<0>> \o d ELSE d

\* gen_random_uuid(): a value no earlier call returned; distinct from every
\* decimal rendering of a clock value (its first symbol is no digit).
Uuid(k) == <<10 + k>>

RECURSIVE StrLess(_, _)
\* s < t for strings (lexicographic order).
StrLess(s, t) ==
    IF t = <<>> THEN FALSE
    ELSE IF s = <<>> THEN TRUE
    ELSE IF Head(s) # Head(t) THEN Head(s) < Head(t)
    ELSE StrLess(Tail(s), Tail(t))

Range(s) == { s[i] : i \in 1..Len(s) }
Ids(gs) == [i \in 1..Len(gs) |-> gs[i].id]
SelectIdx(gs, id) == { i \in 1..Len(gs) : gs[i].id = id }

NoItem == [kind |-> "null", val |-> <<>>]
Item(v) == [kind |-> "value", val |-> v]

-----------------------------------------------------------------------------
(* localStorageService: the pure parts.                                    *)

\* A stored value that is no JSON text: JSON.parse(stored) throws a SyntaxError,
\* and getGames, an async method without a try block, rejects.
Malformed == [kind |-> "malformed", val |-> <<>>]
ParseThrows(item) == item.kind = "malformed"

\* getGames: stored ? JSON.parse(stored) : []
LocalGetGames(item) == IF item.kind = "null" THEN <<>> ELSE item.val

\* A variant of LocalNewGame that copies the title into the description.
LocalNewGameMixed(game, t) ==
    [id |-> ToString(t), title |-> game.title, description |-> game.title,
     category |-> game.category, color |-> game.color, url |-> game.url,
     created_at |-> ToISOString(t), updated_at |-> ToISOString(t)]

\* addGame, the record built after the read.
LocalNewGame(game, t) ==
    [id |-> ToString(t), title |-> game.title, description |-> game.description,
     category |-> game.category, color |-> game.color, url |-> game.url,
     created_at |-> ToISOString(t), updated_at |-> ToISOString(t)]

\* games.unshift(newGame)
Unshift(gs, g) == <<g>> \o gs

\* games.findIndex(g => g.id === id): the first index, 0 for -1.
FindIndex(gs, id) ==
    IF SelectIdx(gs, id) = {} THEN 0
    ELSE CHOOSE i \in SelectIdx(gs, id) : \A j \in SelectIdx(gs, id) : i <= j

\* A variant of MergeGame that stamps created_at as well.
MergeGameRestamped(game, updates, stamp) ==
    [k \in DOMAIN game \cup DOMAIN updates \cup {"updated_at"} |->
        IF k \in {"updated_at", "created_at"} THEN stamp
        ELSE IF k \in DOMAIN updates THEN updates[k]
        ELSE game[k]]

\* { ...game, ...updates, updated_at: <stamp> }
MergeGame(game, updates, stamp) ==
    [k \in DOMAIN game \cup DOMAIN updates \cup {"updated_at"} |->
        IF k = "updated_at" THEN stamp
        ELSE IF k \in DOMAIN updates THEN updates[k]
        ELSE game[k]]

\* games.filter(g => g.id !== id)
FilterOut(gs, id) == SelectSeq(gs, LAMBDA g : g.id # id)

-----------------------------------------------------------------------------
(* gameService (Supabase): the pure parts.                                 *)

\* insert([game]).select().single(): the row with the table's defaults applied.
RemoteNewRow(game, k, t) ==
    [id |-> Uuid(k), title |-> game.title, description |-> game.description,
     category |-> game.category, color |-> game.color, url |-> game.url,
     created_at |-> ToISOString(t), updated_at |-> ToISOString(t)]

RECURSIVE InsertDesc(_, _)
\* One step of ORDER BY created_at DESC: g, inserted before every row of
\* `sorted`, goes before the first row that is older than it.
InsertDesc(sorted, g) ==
    IF sorted = <<>> THEN <<g>>
    ELSE IF ~StrLess(Head(sorted).created_at, g.created_at)
         THEN <<Head(sorted)>> \o InsertDesc(Tail(sorted), g)
         ELSE <<g>> \o sorted

RECURSIVE OrderDesc(_)
OrderDesc(rows) ==
    IF rows = <<>> THEN <<>> ELSE InsertDesc(OrderDesc(Tail(rows)), Head(rows))

\* getGames when the query succeeds: select('*').order('created_at', desc).
\* `rows` is the table in insertion order; rows of one instant come newest first.
RemoteSelect(rows) == OrderDesc(rows)

\* A variant of RemoteUpdateRows without the .eq('id', id) filter.
RemoteUpdateAllRows(rows, id, updates, t) ==
    [i \in 1..Len(rows) |-> MergeGame(rows[i], updates, ToISOString(t))]

\* update({...updates, updated_at}).eq('id', id): every row with that id.
RemoteUpdateRows(rows, id, updates, t) ==
    [i \in 1..Len(rows) |->
        IF rows[i].id = id THEN MergeGame(rows[i], updates, ToISOString(t))
        ELSE rows[i]]

\* delete().eq('id', id)
RemoteDeleteRows(rows, id) == SelectSeq(rows, LAMBDA g : g.id # id)

-----------------------------------------------------------------------------
(* Change events.                                                          *)

Subscribers == <<0, 1, 2>>      \* 0 is the App component, 1 and 2 the API clients

NoPend == [kind |-> "none", games |-> <<>>, id |-> <<>>, arg |-> [title |-> ""]]

\* One event per listener of `store`; the storage event is not dispatched in
\* the tab that wrote (origin), the postgres_changes event reaches every channel.
NewEvents(store, origin, cause) ==
    LET to == SelectSeq(Subscribers,
                 LAMBDA s : subs[s] = store /\ (store = "local" => s # origin))
    IN [i \in 1..Len(to) |->
            [owner |-> to[i], store |-> store, phase |-> "event", snap |-> <<>>,
             disposed |-> FALSE, cause |-> cause, failed |-> FALSE]]

\* How many events may be in flight after a write by `origin`.
Capacity(origin) == IF origin = 0 THEN MaxInFlight ELSE MaxRelists

RemoveAt(s, i) == [j \in 1..(Len(s) - 1) |-> IF j < i THEN s[j] ELSE s[j + 1]]

-----------------------------------------------------------------------------
(* The clock.                                                              *)

Tick ==
    /\ now < 9 + MaxTicks
    /\ now' = now + 1
    /\ UNCHANGED <<table, nextUuid, unblockedGames, gameUpdate, pend, subs,
                   relists, born, configured>>
    /\ UNCHANGED appVars

-----------------------------------------------------------------------------
(* localStorageService called by an API client (a tab).  Every method is   *)
(* async and starts with `await this.getGames()`: the read happens at the  *)
(* call, the rest runs in a later microtask.                               *)

\* localStorage.setItem('gameUpdate', Date.now().toString()): a storage event
\* is dispatched to the other tabs only when the value changes.
SentinelEvents(origin, cause) ==
    IF gameUpdate = Item(ToString(now)) THEN <<>>
    ELSE NewEvents("local", origin, cause)

LocalAddCall(c, game) ==
    /\ ~configured
    /\ ~ParseThrows(unblockedGames)
    /\ pend[c].kind = "none"
    /\ Len(LocalGetGames(unblockedGames)) < MaxGames
    /\ pend' = [pend EXCEPT ![c] = [kind |-> "add", games |-> LocalGetGames(unblockedGames),
                                    id |-> <<>>, arg |-> game]]
    /\ UNCHANGED <<now, table, nextUuid, unblockedGames, gameUpdate, subs,
                   relists, born, configured>>
    /\ UNCHANGED appVars

LocalUpdateCall(c, id, updates) ==
    /\ ~configured
    /\ ~ParseThrows(unblockedGames)
    /\ pend[c].kind = "none"
    /\ pend' = [pend EXCEPT ![c] = [kind |-> "update", games |-> LocalGetGames(unblockedGames),
                                    id |-> id, arg |-> updates]]
    /\ UNCHANGED <<now, table, nextUuid, unblockedGames, gameUpdate, subs,
                   relists, born, configured>>
    /\ UNCHANGED appVars

LocalDeleteCall(c, id) ==
    /\ ~configured
    /\ ~ParseThrows(unblockedGames)
    /\ pend[c].kind = "none"
    /\ pend' = [pend EXCEPT ![c] = [kind |-> "delete", games |-> LocalGetGames(unblockedGames),
                                    id |-> id, arg |-> NoPend.arg]]
    /\ UNCHANGED <<now, table, nextUuid, unblockedGames, gameUpdate, subs,
                   relists, born, configured>>
    /\ UNCHANGED appVars

\* The two setItem calls that end addGame, updateGame and deleteGame.
LocalWrite(origin, gs, cause) ==
    /\ Len(relists) + Len(SentinelEvents(origin, cause)) <= Capacity(origin)
    /\ unblockedGames' = Item(gs)
    /\ gameUpdate' = Item(ToString(now))
    /\ relists' = relists \o SentinelEvents(origin, cause)

\* addGame after the await: build the record, unshift, write, return it.
LocalAddResume(c) ==
    /\ pend[c].kind = "add"
    /\ LocalWrite(c, Unshift(pend[c].games, LocalNewGame(pend[c].arg, now)), "insert")
    /\ born' = born \cup {<<ToString(now), ToISOString(now)>>}
    /\ pend' = [pend EXCEPT ![c] = NoPend]
    /\ UNCHANGED <<now, table, nextUuid, subs, configured>>
    /\ UNCHANGED appVars

\* updateGame after the await, the id found.
LocalUpdateResume(c) ==
    /\ pend[c].kind = "update"
    /\ FindIndex(pend[c].games, pend[c].id) # 0
    /\ LET i == FindIndex(pend[c].games, pend[c].id)
       IN LocalWrite(c, [pend[c].games EXCEPT
                            ![i] = MergeGame(pend[c].games[i], pend[c].arg, ToISOString(now))],
                     "update")
    /\ pend' = [pend EXCEPT ![c] = NoPend]
    /\ UNCHANGED <<now, table, nextUuid, subs, born, configured>>
    /\ UNCHANGED appVars

\* A variant of LocalUpdateMissing that writes the collection back and
\* touches the sentinel before returning null.
LocalUpdateMissingWriting(c) ==
    /\ pend[c].kind = "update"
    /\ FindIndex(pend[c].games, pend[c].id) = 0
    /\ LocalWrite(c, pend[c].games, "update")
    /\ pend' = [pend EXCEPT ![c] = NoPend]
    /\ UNCHANGED <<now, table, nextUuid, subs, born, configured>>
    /\ UNCHANGED appVars

\* updateGame after the await, gameIndex === -1: return null.
LocalUpdateMissing(c) ==
    /\ pend[c].kind = "update"
    /\ FindIndex(pend[c].games, pend[c].id) = 0
    /\ pend' = [pend EXCEPT ![c] = NoPend]
    /\ UNCHANGED <<now, table, nextUuid, unblockedGames, gameUpdate, subs,
                   relists, born, configured>>
    /\ UNCHANGED appVars

\* deleteGame after the await: filter, write, return true.
LocalDeleteResume(c) ==
    /\ pend[c].kind = "delete"
    /\ LocalWrite(c, FilterOut(pend[c].games, pend[c].id), "delete")
    /\ pend' = [pend EXCEPT ![c] = NoPend]
    /\ UNCHANGED <<now, table, nextUuid, subs, born, configured>>
    /\ UNCHANGED appVars

-----------------------------------------------------------------------------
(* gameService (Supabase) called by an API client.  Each method is one     *)
(* statement on the table; a statement that changes a row makes the        *)
(* backend push one postgres_changes event to every subscribed channel.    *)

RemoteWrite(origin, rows, cause) ==
    /\ Len(relists) + Len(NewEvents("remote", origin, cause)) <= Capacity(origin)
    /\ table' = rows
    /\ relists' = relists \o NewEvents("remote", origin, cause)

RemoteAdd(c, game) ==
    /\ configured
    /\ Len(table) < MaxGames
    /\ nextUuid < MaxUuid
    /\ RemoteWrite(c, Append(table, RemoteNewRow(game, nextUuid, now)), "insert")
    /\ nextUuid' = nextUuid + 1
    /\ born' = born \cup {<<Uuid(nextUuid), ToISOString(now)>>}
    /\ UNCHANGED <<now, unblockedGames, gameUpdate, pend, subs, configured>>
    /\ UNCHANGED appVars

RemoteUpdate(c, id, updates) ==
    /\ configured
    /\ SelectIdx(table, id) # {}
    /\ RemoteWrite(c, RemoteUpdateRows(table, id, updates, now), "update")
    /\ UNCHANGED <<now, nextUuid, unblockedGames, gameUpdate, pend, subs, born,
                   configured>>
    /\ UNCHANGED appVars

RemoteDelete(c, id) ==
    /\ configured
    /\ SelectIdx(table, id) # {}
    /\ RemoteWrite(c, RemoteDeleteRows(table, id), "delete")
    /\ UNCHANGED <<now, nextUuid, unblockedGames, gameUpdate, pend, subs, born,
                   configured>>
    /\ UNCHANGED appVars

-----------------------------------------------------------------------------
(* subscribeToChanges, in both services.                                   *)

\* subscribeToChanges(callback): channel(...).on(...).subscribe(), or
\* window.addEventListener('storage', handleStorageChange).
Subscribe(s, store) ==
    /\ subs[s] = "none"
    /\ configured <=> store = "remote"
    /\ subs' = [subs EXCEPT ![s] = store]
    /\ UNCHANGED <<now, table, nextUuid, unblockedGames, gameUpdate, pend,
                   relists, born, configured>>
    /\ UNCHANGED appVars

\* The disposer: supabase.removeChannel(channel), or removeEventListener.  An
\* event not yet handled is dropped; a handler that is awaiting getGames
\* goes on (nothing in it looks at the subscription again).
DisposeRelists(s) ==
    LET kept == SelectSeq(relists, LAMBDA e : ~(e.owner = s /\ e.phase = "event"))
    IN [i \in 1..Len(kept) |->
            IF kept[i].owner = s THEN [kept[i] EXCEPT !.disposed = TRUE] ELSE kept[i]]

Dispose(s) ==
    /\ subs[s] # "none"
    /\ subs' = [subs EXCEPT ![s] = "none"]
    /\ relists' = DisposeRelists(s)
    /\ UNCHANGED <<now, table, nextUuid, unblockedGames, gameUpdate, pend,
                   born, configured>>
    /\ UNCHANGED appVars

\* What the event handler's `await this.getGames()` reads.
RelistSnapshot(store) ==
    IF store = "remote" THEN RemoteSelect(table) ELSE LocalGetGames(unblockedGames)

\* The event reaches its handler, which calls getGames.
RelistRead(i) ==
    /\ relists[i].phase = "event"
    /\ relists[i].store = "local" => ~ParseThrows(unblockedGames)
    /\ relists' = [relists EXCEPT ![i].phase = "ready",
                                  ![i].snap = RelistSnapshot(relists[i].store)]
    /\ UNCHANGED <<now, table, nextUuid, unblockedGames, gameUpdate, pend, subs, born,
                   configured>>
    /\ UNCHANGED appVars

\* The remote query fails: getGames logs the error and returns [].
RelistReadError(i) ==
    /\ relists[i].phase = "event"
    /\ relists[i].store = "remote"
    /\ relists' = [relists EXCEPT ![i].phase = "ready", ![i].snap = <<>>,
                                  ![i].failed = TRUE]
    /\ UNCHANGED <<now, table, nextUuid, unblockedGames, gameUpdate, pend, subs, born,
                   configured>>
    /\ UNCHANGED appVars

\* callback(games), the callback of an API client.
ClientDeliver(i) ==
    /\ relists[i].phase = "ready"
    /\ relists[i].owner \in Clients
    /\ relists' = RemoveAt(relists, i)
    /\ UNCHANGED <<now, table, nextUuid, unblockedGames, gameUpdate, pend, subs,
                   born, configured>>
    /\ UNCHANGED appVars

-----------------------------------------------------------------------------
(* The App component.                                                      *)

\* getGameService = () => gameService || localStorageService
ActiveStore == IF gameService = "remote" THEN "remote" ELSE "local"

NoOp == [kind |-> "none", store |-> "local", games |-> <<>>, id |-> <<>>,
         arg |-> NoPend.arg, ok |-> FALSE, res |-> <<>>]

\* initializeSupabase: `await import('./lib/supabase')` resolves; the service is
\* installed, the flag set, and getGames is called (the query runs and succeeds).
ImportResolve ==
    /\ pc = "importing"
    /\ configured
    /\ gameService' = "remote"
    /\ isSupabaseConnected' = TRUE
    /\ initRes' = RemoteSelect(table)
    /\ pc' = "listing"
    /\ UNCHANGED <<games, showNotification, isOnline, isLoading, lastGameCount, effectDeps, op, alerted>>
    /\ UNCHANGED storeVars

\* The same, the query failing: getGames logs the error and resolves to [].
ImportResolveListError ==
    /\ pc = "importing"
    /\ configured
    /\ gameService' = "remote"
    /\ isSupabaseConnected' = TRUE
    /\ initRes' = <<>>
    /\ pc' = "listing"
    /\ UNCHANGED <<games, showNotification, isOnline, isLoading, lastGameCount, effectDeps, op, alerted>>
    /\ UNCHANGED storeVars

\* The import rejects (supabase.ts throws without its environment variables):
\* the catch block clears the flag and calls localStorageService.getGames.
ImportReject ==
    /\ pc = "importing"
    /\ ~configured
    /\ ~ParseThrows(unblockedGames)
    /\ isSupabaseConnected' = FALSE
    /\ initRes' = LocalGetGames(unblockedGames)
    /\ pc' = "fallback"
    /\ UNCHANGED <<gameService, games, showNotification, isOnline, isLoading,
                   lastGameCount, effectDeps, op, alerted>>
    /\ UNCHANGED storeVars

\* The awaited remote getGames rejects inside the try block: the same catch
\* block runs, with the remote service already installed.
InitListThrows ==
    /\ pc = "listing"
    /\ ~ParseThrows(unblockedGames)
    /\ isSupabaseConnected' = FALSE
    /\ initRes' = LocalGetGames(unblockedGames)
    /\ pc' = "fallback"
    /\ UNCHANGED <<gameService, games, showNotification, isOnline, isLoading,
                   lastGameCount, effectDeps, op, alerted>>
    /\ UNCHANGED storeVars

\* The catch block's `await localStorageService.getGames()` rejects: the
\* rejection leaves initializeSupabase, whose promise nobody awaits, and
\* setIsLoading(false) is never reached.
FallbackListThrows ==
    /\ \/ pc = "importing" /\ ~configured
       \/ pc = "listing"
    /\ ParseThrows(unblockedGames)
    /\ isSupabaseConnected' = FALSE
    /\ pc' = "failed"
    /\ UNCHANGED <<initRes, gameService, games, showNotification, isOnline, isLoading,
                   lastGameCount, effectDeps, op, alerted>>
    /\ UNCHANGED storeVars

\* The awaited getGames resolves: setGames, setLastGameCount, setIsLoading(false).
InitListed ==
    /\ pc \in {"listing", "fallback"}
    /\ games' = initRes
    /\ lastGameCount' = Len(initRes)
    /\ isLoading' = FALSE
    /\ initRes' = <<>>
    /\ pc' = "done"
    /\ UNCHANGED <<gameService, isSupabaseConnected, showNotification, isOnline, effectDeps, op, alerted>>
    /\ UNCHANGED storeVars

\* The subscription effect, re-run when [gameService, isSupabaseConnected]
\* changed: the previous run's disposer, then the guard, then subscribeToChanges
\* on getGameService().
SubscriptionEffect ==
    /\ effectDeps # <<gameService, isSupabaseConnected>>
    /\ effectDeps' = <<gameService, isSupabaseConnected>>
    /\ subs' = [subs EXCEPT ![0] =
                   IF gameService = "null" /\ ~isSupabaseConnected THEN "none"
                   ELSE ActiveStore]
    /\ relists' = IF subs[0] # "none" THEN DisposeRelists(0) ELSE relists
    /\ UNCHANGED <<pc, initRes, gameService, isSupabaseConnected, games,
                   showNotification, isOnline, isLoading, lastGameCount,
                   op, alerted>>
    /\ UNCHANGED <<now, table, nextUuid, unblockedGames, gameUpdate, pend,
                   born, configured>>

\* A variant of AppDeliver that compares the sizes with !== instead of >.
AppDeliverOnAnyChange(i) ==
    /\ relists[i].phase = "ready"
    /\ relists[i].owner = 0
    /\ relists' = RemoveAt(relists, i)
    /\ showNotification' =
          (showNotification \/ (Len(games) > 0 /\ Len(relists[i].snap) # Len(games)))
    /\ lastGameCount' = Len(relists[i].snap)
    /\ games' = relists[i].snap
    /\ UNCHANGED <<pc, initRes, gameService, isSupabaseConnected, isOnline,
                   isLoading, effectDeps, op, alerted>>
    /\ UNCHANGED <<now, table, nextUuid, unblockedGames, gameUpdate, pend, subs,
                   born, configured>>

\* The subscription callback: setGames(prev => { ...; return updatedGames }).
AppDeliver(i) ==
    /\ relists[i].phase = "ready"
    /\ relists[i].owner = 0
    /\ relists' = RemoveAt(relists, i)
    /\ showNotification' =
          (showNotification \/ (Len(games) > 0 /\ Len(relists[i].snap) > Len(games)))
    /\ lastGameCount' = Len(relists[i].snap)
    /\ games' = relists[i].snap
    /\ UNCHANGED <<pc, initRes, gameService, isSupabaseConnected, isOnline,
                   isLoading, effectDeps, op, alerted>>
    /\ UNCHANGED <<now, table, nextUuid, unblockedGames, gameUpdate, pend, subs,
                   born, configured>>

\* A variant of SetOnline that drops the remote service when offline.
SetOnlineReselecting(b) ==
    /\ isOnline # b
    /\ isOnline' = b
    /\ gameService' = IF b THEN gameService ELSE "null"
    /\ UNCHANGED <<pc, initRes, isSupabaseConnected, games,
                   showNotification, isLoading, lastGameCount, effectDeps,
                   op, alerted>>
    /\ UNCHANGED storeVars

\* handleOnline / handleOffline
SetOnline(b) ==
    /\ isOnline # b
    /\ isOnline' = b
    /\ UNCHANGED <<pc, initRes, gameService, isSupabaseConnected, games,
                   showNotification, isLoading, lastGameCount, effectDeps,
                   op, alerted>>
    /\ UNCHANGED storeVars

\* handleDismissNotification (the button is shown with the banner)
HandleDismissNotification ==
    /\ showNotification
    /\ showNotification' = FALSE
    /\ UNCHANGED <<pc, initRes, gameService, isSupabaseConnected, games, isOnline,
                   isLoading, lastGameCount, effectDeps, op, alerted>>
    /\ UNCHANGED storeVars

-----------------------------------------------------------------------------
(* The App's handlers.  A handler calls a method of getGameService() and   *)
(* awaits it: the remote statement runs (or fails) at the call, a          *)
(* localStorageService method reads at the call and writes when resumed.   *)

\* What no handler assigns.
handlerFixed == <<pc, initRes, gameService, isSupabaseConnected, isOnline,
                  effectDeps>>

DisplayedIds == { games[i].id : i \in 1..Len(games) }

\* if (newGame.title && newGame.url), one handler at a time, and the bound on
\* the displayed collection.
CanCall(game) ==
    /\ op.kind = "none"
    /\ game.title # "" /\ game.url # ""
    /\ Len(games) <= MaxGames

\* handleAddGame up to its await, remote service, the insert succeeding.
AddGameRemote(game) ==
    /\ CanCall(game)
    /\ ActiveStore = "remote"
    /\ Len(table) < MaxGames
    /\ nextUuid < MaxUuid
    /\ RemoteWrite(0, Append(table, RemoteNewRow(game, nextUuid, now)), "insert")
    /\ nextUuid' = nextUuid + 1
    /\ born' = born \cup {<<Uuid(nextUuid), ToISOString(now)>>}
    /\ op' = [NoOp EXCEPT !.kind = "add", !.store = "remote", !.ok = TRUE,
                          !.res = <<RemoteNewRow(game, nextUuid, now)>>]
    /\ UNCHANGED <<games, showNotification, isLoading, lastGameCount, alerted>>
    /\ UNCHANGED handlerFixed
    /\ UNCHANGED <<now, unblockedGames, gameUpdate, pend, subs, configured>>

\* A remote statement that fails: the method logs the error and returns
\* null (addGame, updateGame) or false (deleteGame).
RemoteCallError(kind, id) ==
    /\ op.kind = "none"
    /\ ActiveStore = "remote"
    /\ kind = "add" <=> id = NoOp.id
    /\ op' = [NoOp EXCEPT !.kind = kind, !.store = "remote", !.id = id]
    /\ UNCHANGED <<games, showNotification, isLoading, lastGameCount, alerted>>
    /\ UNCHANGED handlerFixed
    /\ UNCHANGED storeVars

\* handleAddGame up to its await, localStorageService: getGames has read.
AddGameLocal(game) ==
    /\ CanCall(game)
    /\ ActiveStore = "local"
    /\ ~ParseThrows(unblockedGames)
    /\ Len(LocalGetGames(unblockedGames)) < MaxGames
    /\ op' = [NoOp EXCEPT !.kind = "add", !.games = LocalGetGames(unblockedGames),
                          !.arg = game]
    /\ UNCHANGED <<games, showNotification, isLoading, lastGameCount, alerted>>
    /\ UNCHANGED handlerFixed
    /\ UNCHANGED storeVars

\* A variant of AddGameReturn that sets the count from the collection as it
\* was before the record is prepended.
AddGameReturnStaleCount ==
    /\ op.kind = "add"
    /\ op' = NoOp
    /\ \/ /\ op.store = "remote"
          /\ games' = IF op.ok THEN Unshift(games, op.res[1]) ELSE games
          /\ lastGameCount' = IF op.ok THEN Len(games) ELSE lastGameCount
          /\ UNCHANGED storeVars
       \/ /\ op.store = "local"
          /\ LocalWrite(0, Unshift(op.games, LocalNewGame(op.arg, now)), "insert")
          /\ born' = born \cup {<<ToString(now), ToISOString(now)>>}
          /\ games' = Unshift(games, LocalNewGame(op.arg, now))
          /\ lastGameCount' = Len(games)
          /\ UNCHANGED <<now, table, nextUuid, pend, subs, configured>>
    /\ alerted' = FALSE
    /\ UNCHANGED <<showNotification, isLoading>>
    /\ UNCHANGED handlerFixed

\* handleAddGame after its await: if (addedGame) setGames(prev => [addedGame, ...prev]).
AddGameReturn ==
    /\ op.kind = "add"
    /\ op' = NoOp
    /\ \/ /\ op.store = "remote"
          /\ games' = IF op.ok THEN Unshift(games, op.res[1]) ELSE games
          /\ lastGameCount' = IF op.ok THEN Len(games) + 1 ELSE lastGameCount
          /\ UNCHANGED storeVars
       \/ /\ op.store = "local"
          /\ LocalWrite(0, Unshift(op.games, LocalNewGame(op.arg, now)), "insert")
          /\ born' = born \cup {<<ToString(now), ToISOString(now)>>}
          /\ games' = Unshift(games, LocalNewGame(op.arg, now))
          /\ lastGameCount' = Len(games) + 1
          /\ UNCHANGED <<now, table, nextUuid, pend, subs, configured>>
    /\ alerted' = FALSE
    /\ UNCHANGED <<showNotification, isLoading>>
    /\ UNCHANGED handlerFixed

\* prev.map(game => game.id === editingGame.id ? updatedGame : game)
ReplaceById(gs, id, g) == [i \in 1..Len(gs) |-> IF gs[i].id = id THEN g ELSE gs[i]]

\* handleUpdateGame up to its await, remote service, a row having the id.
UpdateGameRemote(id, game) ==
    /\ CanCall(game)
    /\ ActiveStore = "remote"
    /\ SelectIdx(table, id) # {}
    /\ RemoteWrite(0, RemoteUpdateRows(table, id, game, now), "update")
    /\ op' = [NoOp EXCEPT !.kind = "update", !.store = "remote", !.ok = TRUE, !.id = id,
                          !.res = <<MergeGame(table[FindIndex(table, id)], game,
                                              ToISOString(now))>>]
    /\ UNCHANGED <<games, showNotification, isLoading, lastGameCount, alerted>>
    /\ UNCHANGED handlerFixed
    /\ UNCHANGED <<now, nextUuid, unblockedGames, gameUpdate, pend, subs, born,
                   configured>>

UpdateGameLocal(id, game) ==
    /\ CanCall(game)
    /\ ActiveStore = "local"
    /\ ~ParseThrows(unblockedGames)
    /\ op' = [NoOp EXCEPT !.kind = "update", !.games = LocalGetGames(unblockedGames),
                          !.id = id, !.arg = game]
    /\ UNCHANGED <<games, showNotification, isLoading, lastGameCount, alerted>>
    /\ UNCHANGED handlerFixed
    /\ UNCHANGED storeVars

\* handleUpdateGame after its await: if (updatedGame) setGames(prev => prev.map(...)).
UpdateGameReturn ==
    /\ op.kind = "update"
    /\ op' = NoOp
    /\ \/ /\ op.store = "remote"
          /\ games' = IF op.ok THEN ReplaceById(games, op.id, op.res[1]) ELSE games
          /\ lastGameCount' = IF op.ok THEN Len(games) ELSE lastGameCount
          /\ UNCHANGED storeVars
       \/ /\ op.store = "local"
          /\ FindIndex(op.games, op.id) # 0
          /\ LET i == FindIndex(op.games, op.id)
                 g == MergeGame(op.games[i], op.arg, ToISOString(now))
             IN /\ LocalWrite(0, [op.games EXCEPT ![i] = g], "update")
                /\ games' = ReplaceById(games, op.id, g)
          /\ lastGameCount' = Len(games)
          /\ UNCHANGED <<now, table, nextUuid, pend, subs, born, configured>>
       \/ /\ op.store = "local"
          /\ FindIndex(op.games, op.id) = 0
          /\ UNCHANGED <<games, lastGameCount>>
          /\ UNCHANGED storeVars
    /\ alerted' = FALSE
    /\ UNCHANGED <<showNotification, isLoading>>
    /\ UNCHANGED handlerFixed

\* handleDeleteGame up to its await, remote service: the statement succeeds
\* whether or not a row has the id; an event is pushed when one had.
DeleteGameRemote(id) ==
    /\ op.kind = "none"
    /\ ActiveStore = "remote"
    /\ IF SelectIdx(table, id) # {}
       THEN RemoteWrite(0, RemoteDeleteRows(table, id), "delete")
       ELSE UNCHANGED <<table, relists>>
    /\ op' = [NoOp EXCEPT !.kind = "delete", !.store = "remote", !.ok = TRUE, !.id = id]
    /\ UNCHANGED <<games, showNotification, isLoading, lastGameCount, alerted>>
    /\ UNCHANGED handlerFixed
    /\ UNCHANGED <<now, nextUuid, unblockedGames, gameUpdate, pend, subs, born,
                   configured>>

DeleteGameLocal(id) ==
    /\ op.kind = "none"
    /\ ActiveStore = "local"
    /\ ~ParseThrows(unblockedGames)
    /\ op' = [NoOp EXCEPT !.kind = "delete", !.games = LocalGetGames(unblockedGames),
                          !.id = id]
    /\ UNCHANGED <<games, showNotification, isLoading, lastGameCount, alerted>>
    /\ UNCHANGED handlerFixed
    /\ UNCHANGED storeVars

\* A variant of DeleteGameReturn that removes the record from the display
\* without looking at the result.
DeleteGameReturnOptimistic ==
    /\ op.kind = "delete"
    /\ op' = NoOp
    /\ \/ /\ op.store = "remote"
          /\ games' = FilterOut(games, op.id)
          /\ lastGameCount' = Len(FilterOut(games, op.id))
          /\ alerted' = ~op.ok
          /\ UNCHANGED storeVars
       \/ /\ op.store = "local"
          /\ LocalWrite(0, FilterOut(op.games, op.id), "delete")
          /\ games' = FilterOut(games, op.id)
          /\ lastGameCount' = Len(FilterOut(games, op.id))
          /\ alerted' = FALSE
          /\ UNCHANGED <<now, table, nextUuid, pend, subs, born, configured>>
    /\ UNCHANGED <<showNotification, isLoading>>
    /\ UNCHANGED handlerFixed

\* handleDeleteGame after its await: if (success) setGames(filter) else alert(...).
DeleteGameReturn ==
    /\ op.kind = "delete"
    /\ op' = NoOp
    /\ \/ /\ op.store = "remote"
          /\ games' = IF op.ok THEN FilterOut(games, op.id) ELSE games
          /\ lastGameCount' = IF op.ok THEN Len(FilterOut(games, op.id)) ELSE lastGameCount
          /\ alerted' = ~op.ok
          /\ UNCHANGED storeVars
       \/ /\ op.store = "local"
          /\ LocalWrite(0, FilterOut(op.games, op.id), "delete")
          /\ games' = FilterOut(games, op.id)
          /\ lastGameCount' = Len(FilterOut(games, op.id))
          /\ alerted' = FALSE
          /\ UNCHANGED <<now, table, nextUuid, pend, subs, born, configured>>
    /\ UNCHANGED <<showNotification, isLoading>>
    /\ UNCHANGED handlerFixed

\* handleReloadGames up to its await (the button is shown with the banner):
\* setIsLoading(true), then getGames of the active service.
ReloadGames ==
    /\ op.kind = "none"
    /\ showNotification
    /\ isLoading' = TRUE
    /\ \/ /\ ActiveStore = "local" => ~ParseThrows(unblockedGames)
          /\ op' = [NoOp EXCEPT !.kind = "reload", !.store = ActiveStore, !.ok = TRUE,
                                !.res = RelistSnapshot(ActiveStore)]
       \/ /\ ActiveStore = "remote"
          /\ op' = [NoOp EXCEPT !.kind = "reload", !.store = "remote"]
    /\ UNCHANGED <<games, showNotification, lastGameCount, alerted>>
    /\ UNCHANGED handlerFixed
    /\ UNCHANGED storeVars

\* A variant of ReloadReturn that keeps the banner when the fetch failed.
ReloadReturnKeepingBanner ==
    /\ op.kind = "reload"
    /\ op' = NoOp
    /\ games' = op.res
    /\ lastGameCount' = Len(op.res)
    /\ isLoading' = FALSE
    /\ showNotification' = (showNotification /\ ~op.ok)
    /\ alerted' = FALSE
    /\ UNCHANGED handlerFixed
    /\ UNCHANGED storeVars

\* handleReloadGames after its await: setGames, setLastGameCount, and in any
\* case setIsLoading(false) and setShowNotification(false).
ReloadReturn ==
    /\ op.kind = "reload"
    /\ op' = NoOp
    /\ games' = op.res
    /\ lastGameCount' = Len(op.res)
    /\ isLoading' = FALSE
    /\ showNotification' = FALSE
    /\ alerted' = FALSE
    /\ UNCHANGED handlerFixed
    /\ UNCHANGED storeVars

-----------------------------------------------------------------------------
(* Specifications.                                                         *)

\* The ids an API client passes: those of the records stored, and one of none.
MissingId == ToString(0)
KnownIds ==
    { g.id : g \in Range(table) \cup Range(LocalGetGames(unblockedGames)) } \cup {MissingId}

StoreInit ==
    /\ now = 9
    /\ table = <<>>
    /\ nextUuid = 0
    /\ unblockedGames = NoItem
    /\ gameUpdate = NoItem
    /\ pend = [c \in Clients |-> NoPend]
    /\ subs = [s \in Range(Subscribers) |-> "none"]
    /\ relists = <<>>
    /\ born = {}
    /\ configured \in BOOLEAN

\* The component after its first render and effects: initializeSupabase has
\* set isLoading and awaits the import; the subscription effect has run once
\* and returned at its guard.
AppInit ==
    /\ pc = "importing"
    /\ initRes = <<>>
    /\ gameService = "null"
    /\ isSupabaseConnected = FALSE
    /\ games = <<>>
    /\ showNotification = FALSE
    /\ isOnline = TRUE
    /\ isLoading = TRUE
    /\ lastGameCount = 0
    /\ effectDeps = <<"null", FALSE>>
    /\ op = NoOp
    /\ alerted = FALSE

Init == StoreInit /\ AppInit

vars == <<now, table, nextUuid, unblockedGames, gameUpdate, pend, subs, relists,
          born, configured, pc, initRes, gameService,
          isSupabaseConnected, games, showNotification, isOnline, isLoading,
          lastGameCount, effectDeps, op, alerted>>

LocalClientNext(c, inputs) ==
    \/ \E game \in inputs : LocalAddCall(c, game)
    \/ \E id \in KnownIds, u \in GameUpdates : LocalUpdateCall(c, id, u)
    \/ \E id \in KnownIds : LocalDeleteCall(c, id)
    \/ LocalAddResume(c)
    \/ LocalUpdateResume(c)
    \/ LocalUpdateMissing(c)
    \/ LocalDeleteResume(c)

RemoteClientNext(c, inputs) ==
    \/ \E game \in inputs : RemoteAdd(c, game)
    \/ \E id \in KnownIds, u \in GameUpdates : RemoteUpdate(c, id, u)
    \/ \E id \in KnownIds : RemoteDelete(c, id)

ClientNext(c, inputs) == LocalClientNext(c, inputs) \/ RemoteClientNext(c, inputs)

SubNext(c) ==
    \/ \E store \in {"remote", "local"} : Subscribe(c, store)
    \/ Dispose(c)

RelistNext ==
    \E i \in 1..Len(relists) :
        \/ RelistRead(i)
        \/ RelistReadError(i)
        \/ ClientDeliver(i)

\* The store API driven by two clients.
StoreNext ==
    \/ Tick
    \/ \E c \in Clients : ClientNext(c, GameInputs)

SpecStore == Init /\ [][StoreNext]_vars

\* The store API and its subscriptions: client 1 writes, client 2 listens.
SubscribeNext ==
    \/ Tick
    \/ ClientNext(1, FormInputs)
    \/ SubNext(2)
    \/ RelistNext

SpecSubscribe == Init /\ [][SubscribeNext]_vars

\* Start-up, effects and events of the App.
StartNext ==
    \/ ImportResolve
    \/ ImportResolveListError
    \/ ImportReject
    \/ InitListThrows
    \/ InitListed
    \/ SubscriptionEffect
    \/ \E i \in 1..Len(relists) : AppDeliver(i)
    \/ \E b \in BOOLEAN : SetOnline(b)
    \/ HandleDismissNotification

\* The handlers of the admin form and of the banner, used once start-up has
\* completed.
Started == pc = "done"

HandlerNext ==
    \/ \E game \in FormInputs : Started /\ AddGameRemote(game)
    \/ \E game \in FormInputs : Started /\ AddGameLocal(game)
    \/ \E kind \in {"add", "update", "delete"}, id \in DisplayedIds \cup {NoOp.id} :
          Started /\ RemoteCallError(kind, id)
    \/ AddGameReturn
    \/ \E id \in DisplayedIds, game \in FormInputs : Started /\ UpdateGameRemote(id, game)
    \/ \E id \in DisplayedIds, game \in FormInputs : Started /\ UpdateGameLocal(id, game)
    \/ UpdateGameReturn
    \/ \E id \in DisplayedIds : Started /\ DeleteGameRemote(id)
    \/ \E id \in DisplayedIds : Started /\ DeleteGameLocal(id)
    \/ DeleteGameReturn
    \/ Started /\ ReloadGames
    \/ ReloadReturn

\* A session of the App: start-up, then its handlers in use, with a second
\* tab writing to the local store.
Next ==
    \/ Tick
    \/ LocalClientNext(2, FormInputs)
    \/ \E i \in 1..Len(relists) : RelistRead(i) \/ RelistReadError(i)
    \/ StartNext
    \/ HandlerNext

\* The App as a listener: it starts up and receives the changes that API
\* client 2 makes within one instant; no handler of its own is used.
FeedNext ==
    \/ RemoteClientNext(2, FormInputs)
    \/ \E i \in 1..Len(relists) : RelistRead(i) \/ RelistReadError(i)
    \/ ImportResolve
    \/ ImportResolveListError
    \/ ImportReject
    \/ InitListThrows
    \/ InitListed
    \/ SubscriptionEffect
    \/ \E i \in 1..Len(relists) : AppDeliver(i)
    \/ HandleDismissNotification

SpecFeed == Init /\ [][FeedNext]_vars

\* Start-up over a browser storage that a previous session, another script or
\* the user may have left with any value under 'unblockedGames'.
BootInit ==
    /\ now = 9
    /\ table = <<>>
    /\ nextUuid = 0
    /\ unblockedGames \in {NoItem, Malformed}
    /\ gameUpdate = NoItem
    /\ pend = [c \in Clients |-> NoPend]
    /\ subs = [s \in Range(Subscribers) |-> "none"]
    /\ relists = <<>>
    /\ born = {}
    /\ configured \in BOOLEAN
    /\ AppInit

BootNext ==
    \/ RemoteClientNext(2, FormInputs)
    \/ LocalClientNext(2, FormInputs)
    \/ \E i \in 1..Len(relists) : RelistRead(i) \/ RelistReadError(i)
    \/ ImportResolve
    \/ ImportResolveListError
    \/ ImportReject
    \/ InitListThrows
    \/ FallbackListThrows
    \/ InitListed
    \/ SubscriptionEffect
    \/ \E i \in 1..Len(relists) : AppDeliver(i)

SpecBoot == BootInit /\ [][BootNext]_vars

\* The admin form in use from the first render on: admin mode is restored from
\* localStorage on mount and the form does not wait for isLoading, so Save may
\* be pressed while initializeSupabase is still awaiting.
EarlyNext ==
    \/ ImportResolve
    \/ ImportResolveListError
    \/ ImportReject
    \/ InitListThrows
    \/ InitListed
    \/ SubscriptionEffect
    \/ \E i \in 1..Len(relists) : RelistRead(i) \/ RelistReadError(i)
    \/ \E i \in 1..Len(relists) : AppDeliver(i)
    \/ \E game \in FormInputs : AddGameRemote(game)
    \/ \E game \in FormInputs : AddGameLocal(game)
    \/ AddGameReturn
    \/ HandleDismissNotification

SpecEarly == Init /\ [][EarlyNext]_vars

Spec == Init /\ [][Next]_vars

-----------------------------------------------------------------------------
(* The claims.                                                             *)

\* The records the active world's store holds, as list returns them.
Stored == IF configured THEN RemoteSelect(table) ELSE LocalGetGames(unblockedGames)

\* `after` is `before` with one record more, which carries the fields of
\* `game`, the given id and the instant t as both timestamps.
AddedOne(before, after, game, id, t) ==
    \E i \in 1..Len(after) :
        /\ RemoveAt(after, i) = before
        /\ DOMAIN after[i] = InputKeys \cup {"id", "created_at", "updated_at"}
        /\ \A k \in InputKeys : after[i][k] = game[k]
        /\ after[i].id = id
        /\ after[i].created_at = ToISOString(t)
        /\ after[i].updated_at = ToISOString(t)

\* Record `new` is record `old` with the fields of `updates` replaced, every
\* other field but updated_at unchanged.
FieldsReplaced(old, new, updates) ==
    /\ DOMAIN new = DOMAIN old
    /\ \A k \in DOMAIN updates : new[k] = updates[k]
    /\ \A k \in DOMAIN old \ (DOMAIN updates \cup {"updated_at"}) : new[k] = old[k]

\* `after` is `before` with the records at the indices in `at` updated and
\* every other record unchanged.
UpdatedAt(before, after, at, updates) ==
    /\ Len(after) = Len(before)
    /\ \A j \in 1..Len(before) :
          IF j \in at THEN FieldsReplaced(before[j], after[j], updates)
          ELSE after[j] = before[j]

\* The indices an update acts on: the first record with the id in the local
\* store (findIndex), every row with the id in the remote one (eq).
LocalTarget(c) == {FindIndex(pend[c].games, pend[c].id)}

\* C1: once initialization has completed and the subscription effect has run
\* for the current service, the App holds a subscription to the store its calls
\* are routed to.
C1_SubscribedToSelectedStore ==
    (pc = "done" /\ effectDeps = <<gameService, isSupabaseConnected>>)
        => subs[0] = ActiveStore

\* C2: for the App subscribed and past its initial load, the delivery that
\* follows a second client's create and carries one record more than the
\* displayed collection makes the banner visible, whatever the displayed size.
C2_CreateRaisesBanner ==
    [][\A i \in 1..Len(relists) :
          (/\ AppDeliver(i)
           /\ pc = "done"
           /\ relists[i].cause = "insert"
           /\ Len(relists[i].snap) = Len(games) + 1)
          => showNotification']_vars

C4_BackendFixed == [][pc = "done" => ActiveStore' = ActiveStore]_vars

\* C4, its case: the remote store was selected, the browser has gone offline,
\* a delete has failed and a reload is awaiting its list.
C4_Witness ==
    /\ pc = "done"
    /\ ActiveStore = "remote"
    /\ ~isOnline
    /\ alerted
    /\ op.kind = "reload"

\* C5: a create adds exactly one record to the collection it was called on;
\* the record carries the input's fields, and the id and both timestamps the
\* store assigned (local: the clock's digits; remote: a fresh uuid).
C5_CreateAddsOne ==
    [][/\ \A c \in Clients :
             LocalAddResume(c) =>
                 AddedOne(pend[c].games, LocalGetGames(unblockedGames'),
                          pend[c].arg, ToString(now), now)
       /\ \A c \in Clients, game \in GameInputs :
             RemoteAdd(c, game) =>
                 AddedOne(RemoteSelect(table), RemoteSelect(table'),
                          game, Uuid(nextUuid), now)]_vars

\* C5, its case: a create has been made on a non-empty collection.
C5_Witness ==
    /\ Len(Stored) = 2
    /\ Stored[1].title = "X"
    /\ Stored[2].title = "Maze"

\* The timestamp part of C6 for the records at `at`: strictly greater than
\* before (strict), or the call's instant and never less than before.
Stamped(before, after, at, t, strict) ==
    \A j \in at :
        IF strict THEN StrLess(before[j].updated_at, after[j].updated_at)
        ELSE /\ after[j].updated_at = ToISOString(t)
             /\ ~StrLess(after[j].updated_at, before[j].updated_at)
             /\ before[j].updated_at # ToISOString(t)
                    => StrLess(before[j].updated_at, after[j].updated_at)

\* What an update of an existing id does to the collection it was called on.
UpdateSteps(strict) ==
    /\ \A c \in Clients :
          LocalUpdateResume(c) =>
              /\ UpdatedAt(pend[c].games, LocalGetGames(unblockedGames'),
                           LocalTarget(c), pend[c].arg)
              /\ Stamped(pend[c].games, LocalGetGames(unblockedGames'),
                         LocalTarget(c), now, strict)
    /\ \A c \in Clients, id \in KnownIds, u \in GameUpdates :
          RemoteUpdate(c, id, u) =>
              /\ UpdatedAt(RemoteSelect(table), RemoteSelect(table'),
                           SelectIdx(RemoteSelect(table), id), u)
              /\ Stamped(RemoteSelect(table), RemoteSelect(table'),
                         SelectIdx(RemoteSelect(table), id), now, strict)

C7_DeleteRemovesOne ==
    [][/\ \A c \in Clients :
             (LocalDeleteResume(c) /\ SelectIdx(pend[c].games, pend[c].id) # {}) =>
                 /\ SelectIdx(LocalGetGames(unblockedGames'), pend[c].id) = {}
                 /\ \E i \in SelectIdx(pend[c].games, pend[c].id) :
                       LocalGetGames(unblockedGames') = RemoveAt(pend[c].games, i)
       /\ \A c \in Clients, id \in KnownIds :
             RemoteDelete(c, id) =>
                 /\ SelectIdx(RemoteSelect(table'), id) = {}
                 /\ \E i \in SelectIdx(RemoteSelect(table), id) :
                       RemoteSelect(table') = RemoveAt(RemoteSelect(table), i)]_vars

\* C8: no two records of the stored collection have the same id.
C8_IdsUnique ==
    \A i, j \in 1..Len(Stored) : Stored[i].id = Stored[j].id => i = j

\* C9: every stored record carries an id together with the created_at that
\* the create which assigned the id gave it.
C9_IdAndCreatedAtKept ==
    \A i \in 1..Len(Stored) : <<Stored[i].id, Stored[i].created_at>> \in born

\* C9, its case: a record has been updated at a later instant than its
\* creation.
C9_Witness ==
    \E i \in 1..Len(Stored) :
        /\ Stored[i].title = "X"
        /\ StrLess(Stored[i].created_at, Stored[i].updated_at)

\* C10: the callback of a subscriber is not invoked by a handler whose
\* subscription has been disposed of.
C10_NoCallbackAfterDispose ==
    [][\A i \in 1..Len(relists) : ClientDeliver(i) => ~relists[i].disposed]_vars

\* C11: in remote mode, the delivery that completes the last pending re-list
\* (none of them failed) leaves the displayed collection equal to the table's
\* current collection.
C11_LastDeliveryIsCurrent ==
    [][\A i \in 1..Len(relists) :
          (/\ AppDeliver(i)
           /\ pc = "done"
           /\ Len(relists) = 1
           /\ relists[i].store = "remote"
           /\ ~relists[i].failed
           /\ ~relists[i].disposed)
          => games' = RemoteSelect(table')]_vars

\* C12: every local-store mutation is an atomic read-modify-write: what it
\* writes is its change applied to the collection stored at the moment of the
\* write, so that no mutation made in between is lost.
C12_LocalMutationsAtomic ==
    [][\A c \in Clients :
          LET cur == LocalGetGames(unblockedGames)
              new == LocalGetGames(unblockedGames')
          IN /\ LocalAddResume(c) =>
                    new = Unshift(cur, LocalNewGame(pend[c].arg, now))
             /\ LocalUpdateResume(c) =>
                    /\ FindIndex(cur, pend[c].id) # 0
                    /\ new = [cur EXCEPT ![FindIndex(cur, pend[c].id)] =
                                 MergeGame(cur[FindIndex(cur, pend[c].id)],
                                           pend[c].arg, ToISOString(now))]
             /\ LocalDeleteResume(c) => new = FilterOut(cur, pend[c].id)]_vars

\* C13: a failed read leaves the displayed collection unchanged, both when a
\* manual reload's list fails and when a subscription re-list fails.
C13_FailedReadKeepsDisplay ==
    [][/\ (ReloadReturn /\ ~op.ok) => games' = games
       /\ \A i \in 1..Len(relists) :
             (AppDeliver(i) /\ relists[i].failed) => games' = games]_vars

\* C14: a handler whose store call failed (create or update returned null,
\* delete returned false) leaves the displayed collection and lastGameCount
\* as they were; the delete handler, and only it, raises the alert.
C14_FailedWriteKeepsDisplay ==
    [][/\ (AddGameReturn /\ op.store = "remote" /\ ~op.ok)
             => (UNCHANGED <<games, lastGameCount>> /\ ~alerted')
       /\ (/\ UpdateGameReturn
           /\ \/ op.store = "remote" /\ ~op.ok
              \/ op.store = "local" /\ FindIndex(op.games, op.id) = 0)
             => (UNCHANGED <<games, lastGameCount>> /\ ~alerted')
       /\ (DeleteGameReturn /\ op.store = "remote" /\ ~op.ok)
             => (UNCHANGED <<games, lastGameCount>> /\ alerted')]_vars

\* C14, its case: with records displayed, a delete has failed and raised the
\* alert, and a create that failed is about to return.
C14_Witness ==
    /\ games # <<>>
    /\ alerted
    /\ op.kind = "add"
    /\ op.store = "remote"
    /\ ~op.ok

\* C15: list never raises an error to initializeSupabase, so that start-up
\* never ends with the rejection of its promise and the loading indicator set.
C15_StartupNeverFails == ~(pc = "failed" /\ isLoading)

\* C16: the banner is a two-state machine.  It becomes visible only in a
\* step of the subscription callback that delivers a collection larger than
\* a non-empty displayed one; it becomes hidden only in a step that completes
\* a manual reload or in the dismissal; each of these two leaves it hidden,
\* the reload also when its fetch failed; no other step changes the flag.
C16_BannerTwoStates ==
    [][/\ (~showNotification /\ showNotification') =>
             \E i \in 1..Len(relists) :
                 /\ AppDeliver(i)
                 /\ Len(games) > 0
                 /\ Len(relists[i].snap) > Len(games)
       /\ (showNotification /\ ~showNotification') =>
             (ReloadReturn \/ HandleDismissNotification)
       /\ (ReloadReturn \/ HandleDismissNotification) => ~showNotification']_vars

\* The banner has been raised and a manual reload whose fetch failed is about
\* to complete.
C16_Witness ==
    /\ showNotification
    /\ op.kind = "reload"
    /\ ~op.ok
    /\ games # <<>>

RECURSIVE ParseNat(_)
\* The number a string of decimal digits denotes.
ParseNat(s) ==
    IF s = <<>> THEN 0 ELSE 10 * ParseNat(SubSeq(s, 1, Len(s) - 1)) + s[Len(s)]

\* The sentinel as a number; an absent key is below every written value.
SentinelNumber(item) == IF item.kind = "null" THEN -1 ELSE ParseNat(item.val)

\* A mutation of the local store by tab c completes with its two writes.
LocalMutation(c) == LocalAddResume(c) \/ LocalUpdateResume(c) \/ LocalDeleteResume(c)

\* The owners of the change events a step has dispatched.
Notified == { relists'[i].owner : i \in (Len(relists) + 1)..Len(relists') }

\* C17: every successful mutation of the local store writes a sentinel value
\* strictly greater than the previous one, and a change event is dispatched
\* to every tab subscribed to the local store but the one that wrote.
C17_SentinelNotifiesOtherTabs ==
    [][\A c \in Clients :
          LocalMutation(c) =>
             /\ SentinelNumber(gameUpdate') > SentinelNumber(gameUpdate)
             /\ \A s \in Range(Subscribers) :
                   subs[s] = "local" => (s \in Notified <=> s # c)]_vars

\* C18: when a local update whose id is not in the collection it read
\* completes, the stored collection and the sentinel keep their values and no
\* change event is dispatched.
C18_UpdateOfMissingIdChangesNothing ==
    [][\A c \in Clients :
          (/\ pend[c].kind = "update"
           /\ pend[c].id \notin Range(Ids(pend[c].games))
           /\ pend'[c] = NoPend)
          => UNCHANGED <<unblockedGames, gameUpdate, relists>>]_vars

\* A tab's update of an id that no stored record has is about to complete,
\* the store holding a record and another tab listening.
C18_Witness ==
    /\ pend[1].kind = "update"
    /\ pend[1].id \notin Range(Ids(pend[1].games))
    /\ pend[1].games # <<>>
    /\ unblockedGames = Item(pend[1].games)
    /\ subs[2] = "local"

\* What a manual reload started in the current state sets the displayed
\* collection to: the list of the active store, or (remote store, the query
\* failing) the empty list.
ReloadFetches ==
    {RelistSnapshot(ActiveStore)} \cup (IF ActiveStore = "remote" THEN {<<>>} ELSE {})

\* C19: every invocation of the subscription callback sets the displayed
\* collection to the delivered one and the last-known count to its size,
\* whatever the banner was and becomes; and a manual reload started right
\* after it, the store not having changed, leaves the displayed collection as
\* the callback set it.
C19_CallbackReplacesReloadKeeps ==
    [][\A i \in 1..Len(relists) :
          AppDeliver(i) =>
             /\ games' = relists[i].snap
             /\ lastGameCount' = Len(relists[i].snap)
             /\ (showNotification' /\ op'.kind = "none") =>
                   \A fetched \in ReloadFetches' : fetched = games']_vars

\* The first half of C19 alone.
C19_CallbackReplaces ==
    [][\A i \in 1..Len(relists) :
          AppDeliver(i) =>
             /\ games' = relists[i].snap
             /\ lastGameCount' = Len(relists[i].snap)]_vars

\* C20: with the remote store active, the displayed collection never holds
\* two records with the same id, however the return of the App's own create
\* (which prepends the returned record) and the change-feed callback of that
\* create (which replaces the collection with a fresh list) interleave.
C20_DisplayedIdsUnique ==
    ActiveStore = "remote" =>
        \A i, j \in 1..Len(games) : i # j => games[i].id # games[j].id

\* C21: in a session on the remote store, where the App is the only client
\* that mutates the store, the banner is never visible: the App's own
\* create, update and delete calls and the change events they cause do not
\* raise it.
C21_OwnChangesNeverRaiseBanner == configured => ~showNotification

\* C22: once initialization has completed, isSupabaseConnected is true
\* exactly when getGameService() is the remote service, whichever way
\* start-up went.
C22_FlagMatchesRouting ==
    pc = "done" => (isSupabaseConnected <=> ActiveStore = "remote")

\* C23: in a session whose start-up has installed the remote service, the
\* local store has received no create, update or delete and none is on its
\* way to it: a mutation issued while initialization was in progress went to
\* the remote store as well.
C23_NoLocalMutationInRemoteSession ==
    gameService = "remote" =>
        /\ unblockedGames = NoItem
        /\ ~(op.kind \in {"add", "update", "delete"} /\ op.store = "local")

\* C24: in every reachable state lastGameCount is the size of the displayed
\* collection.
C24_CountIsDisplayedSize == lastGameCount = Len(games)

\* After start-up, the handlers and the subscription callback have set the
\* collection and the count: two records are displayed, the banner raised by
\* a delivery, and a record is being deleted.
C24_Witness ==
    /\ pc = "done"
    /\ Len(games) = 2
    /\ lastGameCount = 2
    /\ showNotification
    /\ op.kind = "delete"

====
